---- MODULE Spec2Model ----
(***************************************************************************)
(* A model of cibuildwheel/oci_container.py: the OCIContainer session      *)
(* (construction, __enter__, __exit__), its call() framing protocol over   *)
(* the pipe to the in-container shell, and the engine capability probe.    *)
(***************************************************************************)
EXTENDS Integers, Sequences, FiniteSets, TLC

VARIABLES
    name,         \* self.name: 0 is None, k >= 1 the k-th generated name
    nameCtr,      \* how many names uuid4 has produced so far
    engine,       \* self.engine.name
    cwd,          \* self.cwd is truthy
    keep,         \* strtobool(os.environ["CIBW_DEBUG_KEEP_CONTAINER"])
    pc,           \* position of the calling thread in the session's methods
    process,      \* self.process: "unset", "running", "reaped"
    bash_stdin,   \* self.bash_stdin: "unset", "open", "closed"
    bash_stdout,  \* self.bash_stdout: "unset", "open", "closed"
    shell,        \* the in-container shell: "none", "alive", "dead"
    stdinQ,       \* requests written to the shell's stdin, not yet run
    stdoutBuf,    \* bytes in the pipe from the shell's stdout, not yet read
    calls,        \* per caller: the frame of its call()
    cmdLog,       \* per caller: what its remote command wrote, and its status
    ncalls,       \* number of call() invocations the caller has made
    oci_platform, \* self.oci_platform
    platform_args,\* platform_args of __enter__
    simulate_32_bit, \* simulate_32_bit of __enter__
    container_machine,   \* container_machine of __enter__, "unset" while unbound
    multiarch_supported, \* what the probe returned to __enter__: "unset", "True", "False"
    state,        \* lifecycle: "UNSTARTED", "RUNNING", "STOPPED"
    tornDown,     \* __exit__ has returned and __enter__ was not invoked since
    starts,       \* number of __enter__ invocations so far
    exc,          \* exc_val handed to __exit__: "none" or "body"
    result,       \* the method that finished last, and the error it raised
    containers,   \* names of the containers that exist in the engine
    engLog,       \* engine commands issued since the last __enter__ began
    warnings,     \* log.warning calls since the last __enter__ began
    answered,     \* the shell attached last has answered the readiness call
    probe,        \* a direct invocation of the capability probe
    config        \* a construction of an OCIContainerEngineConfig

callVars == <<shell, stdinQ, stdoutBuf, calls, cmdLog>>

startVars == <<oci_platform, platform_args, simulate_32_bit, container_machine,
               multiarch_supported>>

lifeVars == <<state, tornDown, starts, exc, result, containers, engLog, warnings,
              answered>>

sessionVars == <<name, nameCtr, engine, cwd, keep, process, bash_stdin, bash_stdout>>

vars == <<sessionVars, pc, callVars, ncalls, startVars, lifeVars, probe, config>>

----------------------------------------------------------------------------
(* Bounds of the model *)

MaxOut == 4        \* longest output, in bytes, a remote command writes
MaxCalls == 2      \* call() invocations by the caller per session
MaxStarts == 2     \* __enter__ invocations per session

----------------------------------------------------------------------------
(* Bytes and text *)

NL == 10                       \* b"\n"
StatusDigits == 4              \* printf "%04d", and the "- 4" of footer_offset

\* '\n', '0', 'a', and the two bytes of UTF-8 'e-acute' (0xC3 0xA9)
Alphabet == {NL, 48, 97, 195, 169}

\* str(uuid.uuid4()) values, shortened: hex digits
Tokens == {<<97, 48>>, <<48, 97>>}

\* exit statuses a command can have ($? is 0..255)
Statuses == {0, 1, 10, 100, 255}

\* threads that hold the session: 1 runs the with statement
Callers == {1, 2}

SeqsUpTo(S, n) == UNION {[1..k -> S] : k \in 0..n}

Min(a, b) == IF a < b THEN a ELSE b
Max(a, b) == IF a > b THEN a ELSE b

\* bytes.endswith
EndsWith(line, suffix) ==
    /\ Len(line) >= Len(suffix)
    /\ SubSeq(line, Len(line) - Len(suffix) + 1, Len(line)) = suffix

\* Python's s[i:j], negative indices counted from the end
PySlice(s, i, j) ==
    LET n == Len(s)
        lo == IF i < 0 THEN Max(i + n, 0) ELSE Min(i, n)
        hi == IF j < 0 THEN Max(j + n, 0) ELSE Min(j, n)
    IN  IF lo < hi THEN SubSeq(s, lo + 1, hi) ELSE <<>>

IsDigit(b) == b \in 48..57

RECURSIVE DigitsValue(_)
DigitsValue(d) ==
    IF d = <<>> THEN 0
    ELSE 10 * DigitsValue(SubSeq(d, 1, Len(d) - 1)) + (d[Len(d)] - 48)

RECURSIVE StripNL(_)
StripNL(b) ==
    IF b # <<>> /\ Head(b) = NL THEN StripNL(Tail(b))
    ELSE IF b # <<>> /\ b[Len(b)] = NL THEN StripNL(SubSeq(b, 1, Len(b) - 1))
    ELSE b

\* int(return_code_str): the value, or -1 for ValueError
ParseInt(b) ==
    LET d == StripNL(b)
    IN  IF d # <<>> /\ \A i \in 1..Len(d) : IsDigit(d[i])
        THEN DigitsValue(d) ELSE -1

\* printf "%04d" of an exit status
Format4(n) ==
    << 48 + ((n \div 1000) % 10), 48 + ((n \div 100) % 10),
       48 + ((n \div 10) % 10), 48 + (n % 10) >>

\* str(bytes, encoding="utf8", errors="surrogateescape"), for one- and
\* two-byte sequences: an undecodable byte b becomes the code point DC00+b
RECURSIVE Decode(_)
Decode(b) ==
    IF b = <<>> THEN <<>>
    ELSE LET h == Head(b) IN
         IF h < 128 THEN <<h>> \o Decode(Tail(b))
         ELSE IF h \in 194..223 /\ Len(b) >= 2 /\ b[2] \in 128..191
         THEN <<(h - 192) * 64 + (b[2] - 128)>> \o Decode(Tail(Tail(b)))
         ELSE <<56320 + h>> \o Decode(Tail(b))

\* the footer the script's printf writes: status, token, newline
Footer(status, tok) == Format4(status) \o tok \o <<NL>>

\* index of the first newline of buf, 0 if there is none
NLPos(buf) ==
    IF \E i \in 1..Len(buf) : buf[i] = NL
    THEN CHOOSE i \in 1..Len(buf) : buf[i] = NL /\ \A j \in 1..(i - 1) : buf[j] # NL
    ELSE 0

\* a freshly generated token: no line the command writes ends with it
FreshFor(tok, out) ==
    \A i \in 1..Len(out) :
        out[i] = NL => ~EndsWith(SubSeq(out, 1, i), tok \o <<NL>>)

----------------------------------------------------------------------------
(* _check_engine_multiarch_support *)

\* '.'-separated fields of a string (str.split("."))
RECURSIVE SplitDots(_)
SplitDots(s) ==
    IF \E i \in 1..Len(s) : s[i] = 46
    THEN LET i == CHOOSE k \in 1..Len(s) : s[k] = 46 /\ \A j \in 1..(k - 1) : s[j] # 46
         IN  <<SubSeq(s, 1, i - 1)>> \o SplitDots(SubSeq(s, i + 1, Len(s)))
    ELSE <<s>>

IsNumber(f) == f # <<>> /\ \A i \in 1..Len(f) : IsDigit(f[i])

\* packaging.version.Version(s) for release-only versions: the release
\* tuple, or <<-1>> for InvalidVersion
Version(s) ==
    LET parts == SplitDots(s)
    IN  IF \A i \in 1..Len(parts) : IsNumber(parts[i])
        THEN [i \in 1..Len(parts) |-> DigitsValue(parts[i])]
        ELSE <<-1>>

InvalidVersion(v) == v = <<-1>>

\* Version.__lt__: release tuples compared with trailing zeros padded
VersionLess(a, b) ==
    LET at(v, i) == IF i <= Len(v) THEN v[i] ELSE 0
    IN  \E i \in 1..Max(Len(a), Len(b)) :
            /\ at(a, i) < at(b, i)
            /\ \A j \in 1..(i - 1) : at(a, j) = at(b, j)

\* the client's version taken for the smaller of the two
VersionMin_ClientOnly(a, b) == a

\* min(a, b) of Python: b only if b < a
VersionMin(a, b) == IF VersionLess(b, a) THEN b ELSE a

V1_32 == <<1, 32>>       \* Version("1.32")
V3 == <<3>>              \* Version("3")
ExperimentalBelow == 20  \* client major versions below it need Experimental

ProbeRaises(kind) == [raised |-> kind, value |-> FALSE, warned |-> "none"]
ProbeCaught(kind) == [raised |-> "none", value |-> FALSE, warned |-> kind]
ProbeReturns(b) == [raised |-> "none", value |-> b, warned |-> "none"]

\* lines 102-109
DockerSupport(info) ==
    IF "Client" \notin DOMAIN info \/ "ApiVersion" \notin DOMAIN info["Client"]
    THEN ProbeCaught("KeyError")
    ELSE LET client_api_version == Version(info["Client"]["ApiVersion"]) IN
    IF InvalidVersion(client_api_version) THEN ProbeCaught("InvalidVersion")
    ELSE IF "Server" \notin DOMAIN info \/ "ApiVersion" \notin DOMAIN info["Server"]
    THEN ProbeCaught("KeyError")
    ELSE LET engine_api_version == Version(info["Server"]["ApiVersion"]) IN
    IF InvalidVersion(engine_api_version) THEN ProbeCaught("InvalidVersion")
    ELSE IF VersionLess(VersionMin(client_api_version, engine_api_version), V1_32)
    THEN ProbeReturns(FALSE)
    ELSE IF "Version" \notin DOMAIN info["Client"] THEN ProbeCaught("KeyError")
    ELSE LET major == ParseInt(SplitDots(info["Client"]["Version"])[1]) IN
    IF major = -1 THEN ProbeRaises("ValueError")
    ELSE IF major < ExperimentalBelow
    THEN ProbeReturns(IF "Experimental" \in DOMAIN info["Server"]
                      THEN info["Server"]["Experimental"] ELSE FALSE)
    ELSE ProbeReturns(TRUE)

\* lines 110-116
PodmanSupport(info) ==
    IF "Client" \notin DOMAIN info \/ "APIVersion" \notin DOMAIN info["Client"]
    THEN ProbeCaught("KeyError")
    ELSE LET client_api_version == Version(info["Client"]["APIVersion"]) IN
    IF InvalidVersion(client_api_version) THEN ProbeCaught("InvalidVersion")
    ELSE IF "Server" \in DOMAIN info /\ "APIVersion" \notin DOMAIN info["Server"]
    THEN ProbeCaught("KeyError")
    ELSE LET engine_api_version == IF "Server" \in DOMAIN info
                                   THEN Version(info["Server"]["APIVersion"])
                                   ELSE client_api_version IN
    IF InvalidVersion(engine_api_version) THEN ProbeCaught("InvalidVersion")
    ELSE ProbeReturns(~VersionLess(VersionMin(client_api_version, engine_api_version), V3))

\* lines 98-132: what the probe does with the outcome q of the version query
CheckMultiarch(eng, q) ==
    IF q.kind = "FileNotFoundError" THEN ProbeRaises("FileNotFoundError")
    ELSE IF q.kind = "CalledProcessError" THEN ProbeCaught("CalledProcessError")
    ELSE IF q.json = "invalid" THEN ProbeRaises("JSONDecodeError")
    ELSE IF q.json = "null" THEN ProbeRaises("TypeError")
    ELSE IF eng = "docker" THEN DockerSupport(q.info)
    ELSE PodmanSupport(q.info)

\* version strings an engine may report: 1.4 1.31 1.32 1.41 2.9 3 4.0.1 1.x
ApiVersionStrings ==
    { <<49, 46, 52>>, <<49, 46, 51, 49>>, <<49, 46, 51, 50>>, <<49, 46, 52, 49>>,
      <<50, 46, 57>>, <<51>>, <<52, 46, 48, 46, 49>>, <<49, 46, 120>> }

\* client versions: 19.03.8  20.10  dev
ClientVersionStrings ==
    { <<49, 57, 46, 48, 51, 46, 56>>, <<50, 48, 46, 49, 48>>, <<100, 101, 118>> }

\* a JSON object with keys k1 and k2; o1 and o2 hold the key's value, or
\* nothing when the key is missing
Obj2(k1, o1, k2, o2) ==
    [k \in (IF o1 = {} THEN {} ELSE {k1}) \cup (IF o2 = {} THEN {} ELSE {k2})
        |-> IF k = k1 THEN CHOOSE x \in o1 : TRUE ELSE CHOOSE x \in o2 : TRUE]

\* a value of S, or nothing
Optional(S) == {{}} \cup {{x} : x \in S}

\* the "Client" and "Server" sections of the version metadata of engine eng
Sections(eng) ==
    LET key == IF eng = "docker" THEN "ApiVersion" ELSE "APIVersion"
    IN  [ client |-> Optional({Obj2(key, a, "Version", v) :
                        a \in Optional(ApiVersionStrings),
                        v \in Optional(ClientVersionStrings)}),
          server |-> Optional({Obj2(key, a, "Experimental", x) :
                        a \in Optional(ApiVersionStrings),
                        x \in Optional(BOOLEAN)}) ]

\* line 100-101: the outcomes of call(engine.name, "version", ...) and of
\* json.loads on what it printed
VersionQueries(eng) ==
    { [kind |-> "FileNotFoundError"], [kind |-> "CalledProcessError"],
      [kind |-> "output", json |-> "invalid"], [kind |-> "output", json |-> "null"] }
    \cup { [kind |-> "output", json |-> "object", info |-> Obj2("Client", c, "Server", sv)] :
              c \in Sections(eng).client, sv \in Sections(eng).server }

NoProbe == [pc |-> "idle"]

\* the probe is invoked for the session's engine and runs to its end
ProbeRun ==
    /\ probe.pc = "idle"
    /\ \E q \in VersionQueries(engine) :
          probe' = [pc |-> "done", query |-> q, res |-> CheckMultiarch(engine, q)]
    /\ UNCHANGED <<sessionVars, pc, callVars, ncalls, startVars, lifeVars, config>>

\* the caller takes the probe's answer
ProbeTaken ==
    /\ probe.pc = "done"
    /\ probe' = NoProbe
    /\ UNCHANGED <<sessionVars, pc, callVars, ncalls, startVars, lifeVars, config>>

----------------------------------------------------------------------------
(* OCIContainerEngineConfig *)

\* a string is modelled by the sequence of its pieces
StartsWith(arg, prefix) ==
    Len(arg) >= Len(prefix) /\ SubSeq(arg, 1, Len(prefix)) = prefix

PlatformFlag == <<"--platform">>
PlatformEq == <<"--platform", "=">>

\* tokens of a create_args value: --platform, --platform=linux/amd64,
\* linux/arm64, --privileged
ArgTokens ==
    { PlatformFlag, PlatformEq \o <<"linux/amd64">>, <<"linux/arm64">>,
      <<"--privileged">> }

MaxArgs == 3       \* longest create_args list

\* values of the name key, joined
ConfigNames == {"docker", "podman", "nerdctl"}

\* engine names from_config_string knows, with one more
Recognized_WithNerdctl == {"docker", "podman", "nerdctl"}

\* line 57
Recognized == {"docker", "podman"}

\* the list without its i-th element (list.pop(i - 1) of an index in range)
Pop(l, i) == SubSeq(l, 1, i - 1) \o SubSeq(l, i + 1, Len(l))

\* the elements of l that do not start with prefix, in order
RECURSIVE WithoutPrefixed(_, _)
WithoutPrefixed(l, prefix) ==
    IF l = <<>> THEN <<>>
    ELSE (IF StartsWith(Head(l), prefix) THEN <<>> ELSE <<Head(l)>>)
             \o WithoutPrefixed(Tail(l), prefix)

\* list.index(x) + 1: position of the first x in l
IndexOf(l, x) == CHOOSE i \in 1..Len(l) : l[i] = x /\ \A j \in 1..(i - 1) : l[j] # x

HasBare(args) == \E i \in 1..Len(args) : args[i] = PlatformFlag
HasEq(args) == \E i \in 1..Len(args) : StartsWith(args[i], PlatformEq)

EngineConfig(nm, args, dhm) ==
    [name |-> nm, create_args |-> args, disable_host_mount |-> dhm]

ConfigRaises(kind, warned) == [raised |-> kind, warned |-> warned, made |-> {}]
ConfigReturns(cfg, warned) == [raised |-> "none", warned |-> warned, made |-> {cfg}]

\* lines 70-82
StripPlatform(nm, args, dhm) ==
    IF HasBare(args) \/ HasEq(args)
    THEN IF HasBare(args)
         THEN LET index == IndexOf(args, PlatformFlag)
                  once  == Pop(args, index)
              IN  IF index > Len(once)
                  THEN ConfigRaises("IndexError", TRUE)
                  ELSE ConfigReturns(EngineConfig(nm, Pop(once, index), dhm), TRUE)
         ELSE ConfigReturns(EngineConfig(nm, WithoutPrefixed(args, PlatformEq), dhm), TRUE)
    ELSE ConfigReturns(EngineConfig(nm, args, dhm), FALSE)

\* lines 50-82, on the dictionary parse_key_value_string returned: nm is
\* the joined name, args the create_args list, dhm the host-mount option
from_config_string(nm, args, dhm) ==
    IF nm \notin Recognized THEN ConfigRaises("ValueError", FALSE)
    ELSE StripPlatform(nm, args, dhm)

\* lines 43-47: the dataclass's generated __init__
Construct(nm, args, dhm) == ConfigReturns(EngineConfig(nm, args, dhm), FALSE)

NoConfig == [pc |-> "idle"]

\* from_config_string is invoked on a parsed configuration string
ConfigParse ==
    /\ config.pc = "idle"
    /\ \E nm \in ConfigNames, args \in SeqsUpTo(ArgTokens, MaxArgs), dhm \in BOOLEAN :
          config' = [pc |-> "done", path |-> "from_config_string", name |-> nm,
                     args |-> args, res |-> from_config_string(nm, args, dhm)]
    /\ UNCHANGED <<sessionVars, pc, callVars, ncalls, startVars, lifeVars, probe>>

\* OCIContainerEngineConfig(...) is invoked directly
ConfigDirect ==
    /\ config.pc = "idle"
    /\ \E nm \in ConfigNames, args \in SeqsUpTo(ArgTokens, MaxArgs), dhm \in BOOLEAN :
          config' = [pc |-> "done", path |-> "direct", name |-> nm,
                     args |-> args, res |-> Construct(nm, args, dhm)]
    /\ UNCHANGED <<sessionVars, pc, callVars, ncalls, startVars, lifeVars, probe>>

\* the caller takes the configuration, or the error
ConfigTaken ==
    /\ config.pc = "done"
    /\ config' = NoConfig
    /\ UNCHANGED <<sessionVars, pc, callVars, ncalls, startVars, lifeVars, probe>>

----------------------------------------------------------------------------
(* call() *)

NoPlatformArgs == [platform |-> "none", pull |-> FALSE]

\* eof: the last readline of the call returned b"", the end of the stream;
\* overlapped: another call was between its write and its footer while this
\* one was
IdleFrame == [pc |-> "idle", tok |-> <<>>, capture |-> FALSE, acc |-> <<>>,
              kind |-> "none", code |-> 0, output |-> <<>>, eof |-> FALSE,
              overlapped |-> FALSE]

\* the frames once caller c has written a request under token tok: c reads,
\* and the calls that are reading now overlap with it
Written(c, capture, tok) ==
    [d \in Callers |->
        IF d = c
        THEN [IdleFrame EXCEPT !.pc = "read", !.tok = tok, !.capture = capture,
                               !.overlapped = \E e \in Callers \ {c} :
                                                 calls[e].pc = "read"]
        ELSE IF calls[d].pc = "read" THEN [calls[d] EXCEPT !.overlapped = TRUE]
        ELSE calls[d]]

NoCmd == [ran |-> FALSE, out |-> <<>>, status |-> 0]

\* does s hold sub as a run of consecutive bytes?
Contains(s, sub) ==
    \E i \in 1..(Len(s) - Len(sub) + 1) : SubSeq(s, i, i + Len(sub) - 1) = sub

IsFooterLine_Substring(line, tok) == Contains(line, tok)

\* every complete line is taken for the footer
IsFooterLine_AnyLine(line, tok) == line # <<>> /\ line[Len(line)] = NL

\* the footer of any call is taken for this call's
IsFooterLine_AnyToken(line, tok) == \E t \in Tokens : EndsWith(line, t \o <<NL>>)

\* line 383: is this line the footer?
IsFooterLine(line, tok) == EndsWith(line, tok \o <<NL>>)

FooterOffset_NewlineForgotten(line, tok) == Len(line) - Len(tok) - StatusDigits

\* lines 385-390
FooterOffset(line, tok) == Len(line) - 1 - Len(tok) - StatusDigits

Finish_StatusIgnored(f, return_code) ==
    [f EXCEPT !.pc = "returned", !.kind = "return", !.code = 0,
              !.output = IF f.capture THEN Decode(f.acc) ELSE <<>>]

\* lines 402-410: the frame of a call that has read its footer
Finish(f, return_code) ==
    LET output == IF f.capture THEN Decode(f.acc) ELSE <<>>
    IN  IF return_code # 0
        THEN [f EXCEPT !.pc = "raised", !.kind = "CalledProcessError",
                       !.code = return_code, !.output = output]
        ELSE [f EXCEPT !.pc = "returned", !.kind = "return",
                       !.code = 0, !.output = output]

\* the request is written with the stream's errors swallowed
CallWrite_WriteErrorsSwallowed(c, capture, toks) ==
    /\ calls[c].pc \in {"idle", "returned", "raised"}
    /\ cmdLog' = [cmdLog EXCEPT ![c] = NoCmd]
    /\ \E tok \in toks :
        /\ calls' = Written(c, capture, tok)
        /\ stdinQ' = IF bash_stdin = "open" /\ shell = "alive"
                     THEN Append(stdinQ, [who |-> c, tok |-> tok]) ELSE stdinQ
    /\ UNCHANGED <<shell, stdoutBuf>>

\* lines 337-378: format the request, write and flush it
CallWrite(c, capture, toks) ==
    /\ calls[c].pc \in {"idle", "returned", "raised"}
    /\ cmdLog' = [cmdLog EXCEPT ![c] = NoCmd]
    /\ \E tok \in toks :
        IF bash_stdin = "unset"
        THEN /\ calls' = [calls EXCEPT ![c] = [IdleFrame EXCEPT
                            !.pc = "raised", !.kind = "AttributeError"]]
             /\ UNCHANGED stdinQ
        ELSE IF bash_stdin = "closed"
        THEN /\ calls' = [calls EXCEPT ![c] = [IdleFrame EXCEPT
                            !.pc = "raised", !.kind = "ValueError"]]
             /\ UNCHANGED stdinQ
        ELSE IF shell # "alive"
        THEN /\ calls' = [calls EXCEPT ![c] = [IdleFrame EXCEPT
                            !.pc = "raised", !.kind = "BrokenPipeError"]]
             /\ UNCHANGED stdinQ
        ELSE /\ calls' = Written(c, capture, tok)
             /\ stdinQ' = Append(stdinQ, [who |-> c, tok |-> tok])
    /\ UNCHANGED <<shell, stdoutBuf>>

\* lines 380-410: one readline and what follows it
ReadLine(c) ==
    /\ calls[c].pc = "read"
    /\ bash_stdout = "open"
    /\ NLPos(stdoutBuf) > 0 \/ shell = "dead"
    /\ LET f    == calls[c]
           n    == IF NLPos(stdoutBuf) > 0 THEN NLPos(stdoutBuf) ELSE Len(stdoutBuf)
           line == SubSeq(stdoutBuf, 1, n)
           off  == FooterOffset(line, f.tok)
           rc   == ParseInt(PySlice(line, off, off + StatusDigits))
       IN  /\ stdoutBuf' = SubSeq(stdoutBuf, n + 1, Len(stdoutBuf))
           /\ IF IsFooterLine(line, f.tok)
              THEN IF rc < 0
                   THEN calls' = [calls EXCEPT ![c] =
                                    [f EXCEPT !.pc = "raised", !.kind = "ValueError"]]
                   ELSE calls' = [calls EXCEPT ![c] =
                                    Finish([f EXCEPT !.acc = f.acc \o PySlice(line, 0, off)], rc)]
              ELSE calls' = [calls EXCEPT ![c] =
                               [f EXCEPT !.acc = f.acc \o line, !.eof = (line = <<>>)]]
    /\ UNCHANGED <<shell, stdinQ, cmdLog>>

----------------------------------------------------------------------------
(* The shell in the container (lines 363-367: the script it is sent) *)

\* the shell runs the next request: the command writes out and exits with
\* status, then printf writes the footer
ShellExec(outs, sts) ==
    /\ shell = "alive"
    /\ stdinQ # <<>>
    /\ Head(stdinQ).who # 0
    /\ LET req == Head(stdinQ) IN
       \E out \in outs, status \in sts :
          /\ FreshFor(req.tok, out)
          /\ stdoutBuf' = stdoutBuf \o out \o Footer(status, req.tok)
          /\ cmdLog' = [cmdLog EXCEPT ![req.who] =
                           [ran |-> TRUE, out |-> out, status |-> status]]
    /\ stdinQ' = Tail(stdinQ)
    /\ UNCHANGED <<shell, calls>>

----------------------------------------------------------------------------
(* The call protocol on a running session *)

InitCall ==
    /\ name = 1 /\ nameCtr = 1
    /\ engine \in {"docker", "podman"}
    /\ cwd = FALSE
    /\ keep = FALSE
    /\ pc = "body"
    /\ process = "running" /\ bash_stdin = "open" /\ bash_stdout = "open"
    /\ shell = "alive"
    /\ stdinQ = <<>> /\ stdoutBuf = <<>>
    /\ calls = [c \in Callers |-> IdleFrame]
    /\ cmdLog = [c \in Callers |-> NoCmd]
    /\ ncalls = 0
    /\ oci_platform = "linux/amd64"
    /\ platform_args = NoPlatformArgs
    /\ simulate_32_bit = FALSE
    /\ container_machine = "unset"
    /\ multiarch_supported = "False"
    /\ answered = TRUE
    /\ state = "RUNNING" /\ tornDown = FALSE /\ starts = 1
    /\ exc = "none"
    /\ result = [op |-> "enter", error |-> "none"]
    /\ containers = {1}
    /\ engLog = <<>>
    /\ warnings = <<>>
    /\ probe = NoProbe
    /\ config = NoConfig

\* the with-body (or any holder of the session) invokes call()
BodyCall(capture, toks) ==
    /\ pc \in {"idle", "body"}
    /\ ncalls < MaxCalls
    /\ ncalls' = ncalls + 1
    /\ CallWrite(1, capture, toks)
    /\ UNCHANGED <<sessionVars, pc, startVars, lifeVars, probe, config>>

\* a call() of the calling thread reads its next line
CallRead ==
    /\ ReadLine(1)
    /\ UNCHANGED <<sessionVars, pc, ncalls, startVars, lifeVars, probe, config>>

\* the shell runs a command of the caller
ShellStep(outs, sts) ==
    /\ ShellExec(outs, sts)
    /\ UNCHANGED <<sessionVars, pc, ncalls, startVars, lifeVars, probe, config>>

NextCall ==
    \/ \E capture \in BOOLEAN : BodyCall(capture, Tokens)
    \/ ShellStep(SeqsUpTo(Alphabet, MaxOut), Statuses)
    \/ CallRead

SpecCall == InitCall /\ [][NextCall]_vars

----------------------------------------------------------------------------
(* call() invoked by two threads on a running session *)

MaxConcCalls == 3  \* call() invocations by the two threads together

\* outputs and statuses of the commands the threads run
ThreadOutputs == {<<>>, <<97, NL>>}
ThreadStatuses == {0, 1}

\* tokens no other call carries: uuid4 does not repeat
UnusedTokens(c) == Tokens \ {calls[d].tok : d \in Callers \ {c}}

\* thread c invokes call(): nothing in call() waits for another call
ThreadCall(c) ==
    /\ ncalls < MaxConcCalls
    /\ ncalls' = ncalls + 1
    /\ CallWrite(c, TRUE, UnusedTokens(c))
    /\ UNCHANGED <<sessionVars, pc, startVars, lifeVars, probe, config>>

\* the call() of thread c reads its next line
ThreadRead(c) ==
    /\ ReadLine(c)
    /\ UNCHANGED <<sessionVars, pc, ncalls, startVars, lifeVars, probe, config>>

NextConc ==
    \/ \E c \in Callers : ThreadCall(c)
    \/ \E c \in Callers : ThreadRead(c)
    \/ ShellStep(ThreadOutputs, ThreadStatuses)

SpecConc == InitCall /\ [][NextConc]_vars

----------------------------------------------------------------------------
(* __enter__ *)

\* outputs, statuses and tokens of the commands run in the lifecycle
\* specification
LifeOutputs == {<<>>, <<97, NL>>}
LifeStatuses == {0, 1}
LifeTokens == {<<97, 48>>}

\* every answer the probe can give for an engine
DockerProbeResults == {CheckMultiarch("docker", q) : q \in VersionQueries("docker")}
PodmanProbeResults == {CheckMultiarch("podman", q) : q \in VersionQueries("podman")}

EngineCmd(cmd, nm, pargs, entry) ==
    [cmd |-> cmd, name |-> nm, platform |-> pargs.platform, pull |-> pargs.pull,
     entry |-> entry]

\* what "run --rm <image> uname -m" can do: fail, or print the machine
ArchOutcomes == {"fail", "i686", "x86_64"}

\* __enter__ raises: the with statement does not invoke __exit__
EnterRaises(kind) ==
    /\ pc' = "idle"
    /\ result' = [op |-> "enter", error |-> kind]

\* line 269
EnterReturns ==
    /\ pc' = "body"
    /\ state' = "RUNNING"
    /\ result' = [op |-> "enter", error |-> "none"]

\* the name is generated once and used again by a later start
EnterBegin_NameReused ==
    /\ pc = "idle"
    /\ calls[1].pc # "read"
    /\ starts < MaxStarts
    /\ starts' = starts + 1
    /\ name' = 1
    /\ nameCtr' = 1
    /\ tornDown' = FALSE
    /\ engLog' = <<>>
    /\ warnings' = <<>>
    /\ pc' = "enter_probe"
    /\ UNCHANGED <<engine, cwd, keep, process, bash_stdin, bash_stdout, callVars,
                   ncalls, startVars, state, exc, result, containers, answered,
                   probe, config>>

\* line 183
EnterBegin ==
    /\ pc = "idle"
    /\ calls[1].pc # "read"
    /\ starts < MaxStarts
    /\ starts' = starts + 1
    /\ name' = nameCtr + 1
    /\ nameCtr' = nameCtr + 1
    /\ tornDown' = FALSE
    /\ engLog' = <<>>
    /\ warnings' = <<>>
    /\ pc' = "enter_probe"
    /\ UNCHANGED <<engine, cwd, keep, process, bash_stdin, bash_stdout, callVars,
                   ncalls, startVars, state, exc, result, containers, answered,
                   probe, config>>

\* the platform arguments given whatever the probe answered
PlatformArgs_Always(supported) == [platform |-> oci_platform, pull |-> TRUE]

\* lines 193-198: platform_args
PlatformArgs(supported) ==
    IF supported THEN [platform |-> oci_platform, pull |-> TRUE] ELSE NoPlatformArgs

\* lines 193-199
EnterProbe ==
    /\ pc = "enter_probe"
    /\ \E r \in (IF engine = "docker" THEN DockerProbeResults ELSE PodmanProbeResults) :
         IF r.raised # "none"
         THEN /\ EnterRaises(r.raised)
              /\ UNCHANGED <<platform_args, multiarch_supported, warnings, state>>
         ELSE /\ multiarch_supported' = IF r.value THEN "True" ELSE "False"
              /\ platform_args' = PlatformArgs(r.value)
              /\ warnings' = warnings
                    \o (IF r.warned # "none" THEN <<"version information">> ELSE <<>>)
                    \o (IF r.value THEN <<>> ELSE <<"does not support multiarch images">>)
              /\ pc' = "enter_arch"
              /\ UNCHANGED <<result, state>>
    /\ UNCHANGED <<sessionVars, callVars, ncalls, oci_platform, simulate_32_bit,
                   container_machine, tornDown, starts, exc, containers, engLog,
                   answered, probe, config>>

\* the fallback without the arguments that followed the platform
AmdFallback_PullDropped(pargs) == [platform |-> "linux/amd64", pull |-> FALSE]

\* line 217: ["--platform=linux/amd64", *platform_args[1:]]
AmdFallback(pargs) == [platform |-> "linux/amd64", pull |-> pargs.pull]

\* lines 201-217 and 221-223: the first architecture probe
EnterArch ==
    /\ pc = "enter_arch"
    /\ IF oci_platform # "linux/386"
       THEN /\ simulate_32_bit' = FALSE
            /\ container_machine' = "unset"
            /\ pc' = "enter_create"
            /\ UNCHANGED <<platform_args, engLog, result>>
       ELSE /\ engLog' = Append(engLog, EngineCmd("run", 0, platform_args, "uname"))
            /\ \E machine \in ArchOutcomes :
                 IF machine = "fail"
                 THEN IF platform_args = NoPlatformArgs
                      THEN /\ EnterRaises("CalledProcessError")
                           /\ UNCHANGED <<platform_args, simulate_32_bit,
                                          container_machine>>
                      ELSE /\ platform_args' = AmdFallback(platform_args)
                           /\ pc' = "enter_arch_retry"
                           /\ UNCHANGED <<simulate_32_bit, container_machine, result>>
                 ELSE /\ container_machine' = machine
                      /\ simulate_32_bit' = (machine # "i686")
                      /\ pc' = "enter_create"
                      /\ UNCHANGED <<platform_args, result>>
    /\ UNCHANGED <<sessionVars, callVars, ncalls, oci_platform, multiarch_supported,
                   state, tornDown, starts, exc, containers, warnings, answered,
                   probe, config>>

\* lines 218-223: the probe again, under the amd64 assumption
EnterArchRetry ==
    /\ pc = "enter_arch_retry"
    /\ engLog' = Append(engLog, EngineCmd("run", 0, platform_args, "uname"))
    /\ \E machine \in ArchOutcomes :
         IF machine = "fail"
         THEN /\ EnterRaises("CalledProcessError")
              /\ UNCHANGED <<simulate_32_bit, container_machine>>
         ELSE /\ container_machine' = machine
              /\ simulate_32_bit' = (machine # "i686")
              /\ pc' = "enter_create"
              /\ UNCHANGED result
    /\ UNCHANGED <<sessionVars, callVars, ncalls, oci_platform, platform_args,
                   multiarch_supported, state, tornDown, starts, exc, containers,
                   warnings, answered, probe, config>>

\* every container gets the plain shell
ShellArgs_Plain(sim) == "/bin/bash"

\* line 223: shell_args
ShellArgs(sim) == IF sim THEN "linux32 /bin/bash" ELSE "/bin/bash"

\* lines 223-241
EnterCreate ==
    /\ pc = "enter_create"
    /\ engLog' = Append(engLog, EngineCmd("create", name, platform_args,
                                          ShellArgs(simulate_32_bit)))
    /\ \E created \in BOOLEAN :
         IF created
         THEN /\ containers' = containers \cup {name}
              /\ pc' = "enter_popen"
              /\ UNCHANGED result
         ELSE /\ EnterRaises("CalledProcessError")
              /\ UNCHANGED containers
    /\ UNCHANGED <<sessionVars, callVars, ncalls, startVars, state, tornDown,
                   starts, exc, warnings, answered, probe, config>>

\* lines 243-258
EnterPopen ==
    /\ pc = "enter_popen"
    /\ engLog' = Append(engLog, EngineCmd("start", name, NoPlatformArgs, "none"))
    /\ process' = "running"
    /\ bash_stdin' = "open"
    /\ bash_stdout' = "open"
    /\ shell' = "alive"
    /\ stdinQ' = <<>>
    /\ stdoutBuf' = <<>>
    /\ answered' = FALSE
    /\ pc' = "enter_ready"
    /\ UNCHANGED <<name, nameCtr, engine, cwd, keep, calls, cmdLog, ncalls, startVars,
                   state, tornDown, starts, exc, result, containers, warnings,
                   probe, config>>

\* line 261 (the call is written) and line 267 (likewise)
EnterCall ==
    /\ pc \in {"enter_ready", "enter_mkdir"}
    /\ CallWrite(1, FALSE, LifeTokens)
    /\ pc' = IF pc = "enter_ready" THEN "enter_ready_wait" ELSE "enter_mkdir_wait"
    /\ UNCHANGED <<sessionVars, ncalls, startVars, lifeVars, probe, config>>

\* __enter__ goes on without waiting for the answer to its call
EnterCallDone_NotAwaited ==
    /\ pc \in {"enter_ready_wait", "enter_mkdir_wait"}
    /\ calls' = [calls EXCEPT ![1] = IdleFrame]
    /\ cmdLog' = [cmdLog EXCEPT ![1] = NoCmd]
    /\ answered' = IF pc = "enter_ready_wait"
                    THEN calls[1].kind \in {"return", "CalledProcessError"}
                    ELSE answered
    /\ IF calls[1].pc = "raised"
       THEN /\ EnterRaises(calls[1].kind)
            /\ UNCHANGED state
       ELSE IF pc = "enter_ready_wait" /\ cwd
       THEN /\ pc' = "enter_mkdir"
            /\ UNCHANGED <<state, result>>
       ELSE EnterReturns
    /\ UNCHANGED <<sessionVars, shell, stdinQ, stdoutBuf, ncalls, startVars, tornDown,
                   starts, exc, containers, engLog, warnings, probe, config>>

\* lines 261-269: the call of __enter__ is over
EnterCallDone ==
    /\ pc \in {"enter_ready_wait", "enter_mkdir_wait"}
    /\ calls[1].pc \in {"returned", "raised"}
    /\ calls' = [calls EXCEPT ![1] = IdleFrame]
    /\ cmdLog' = [cmdLog EXCEPT ![1] = NoCmd]
    /\ answered' = IF pc = "enter_ready_wait"
                    THEN calls[1].kind \in {"return", "CalledProcessError"}
                    ELSE answered
    /\ IF calls[1].pc = "raised"
       THEN /\ EnterRaises(calls[1].kind)
            /\ UNCHANGED state
       ELSE IF pc = "enter_ready_wait" /\ cwd
       THEN /\ pc' = "enter_mkdir"
            /\ UNCHANGED <<state, result>>
       ELSE EnterReturns
    /\ UNCHANGED <<sessionVars, shell, stdinQ, stdoutBuf, ncalls, startVars, tornDown,
                   starts, exc, containers, engLog, warnings, probe, config>>

----------------------------------------------------------------------------
(* __exit__ *)

\* b"exit 0\n" on the shell's stdin
ExitDirective == [who |-> 0, tok |-> <<>>]

\* __exit__ raises: its error is the one the with statement propagates
ExitRaises(kind) ==
    /\ pc' = "idle"
    /\ result' = [op |-> "exit", error |-> kind]
    /\ UNCHANGED tornDown

\* __exit__ returns None: the body's error, if any, propagates
ExitReturns ==
    /\ pc' = "idle"
    /\ result' = [op |-> "exit", error |-> exc]
    /\ tornDown' = TRUE

\* the with-body ends, normally or with an error, and __exit__ is invoked
BodyEnd ==
    /\ pc = "body"
    /\ calls[1].pc # "read"
    /\ \E e \in {"none", "body"} : exc' = e
    /\ state' = "STOPPED"
    /\ pc' = "exit_write"
    /\ calls' = [calls EXCEPT ![1] = IdleFrame]
    /\ cmdLog' = [cmdLog EXCEPT ![1] = NoCmd]
    /\ UNCHANGED <<sessionVars, shell, stdinQ, stdoutBuf, ncalls, startVars, tornDown,
                   starts, result, containers, engLog, warnings, answered,
                   probe, config>>

\* lines 277-278
ExitWrite ==
    /\ pc = "exit_write"
    /\ IF bash_stdin # "open"
       THEN /\ ExitRaises("ValueError")
            /\ UNCHANGED stdinQ
       ELSE IF shell # "alive"
       THEN /\ ExitRaises("BrokenPipeError")
            /\ UNCHANGED stdinQ
       ELSE /\ stdinQ' = Append(stdinQ, ExitDirective)
            /\ pc' = "exit_wait"
            /\ UNCHANGED <<result, tornDown>>
    /\ UNCHANGED <<sessionVars, shell, stdoutBuf, calls, cmdLog, ncalls, startVars,
                   state, starts, exc, containers, engLog, warnings, answered,
                   probe, config>>

\* line 279: process.wait(timeout=30)
ExitWait ==
    /\ pc = "exit_wait"
    /\ IF shell = "dead"
       THEN /\ process' = "reaped"
            /\ pc' = "exit_close"
            /\ UNCHANGED <<result, tornDown>>
       ELSE /\ ExitRaises("TimeoutExpired")
            /\ UNCHANGED process
    /\ UNCHANGED <<name, nameCtr, engine, cwd, keep, bash_stdin, bash_stdout, callVars,
                   ncalls, startVars, state, starts, exc, containers, engLog,
                   warnings, answered, probe, config>>

\* lines 280-293: close both ends, wait again under podman, read the flag
ExitClose ==
    /\ pc = "exit_close"
    /\ bash_stdin' = "closed"
    /\ bash_stdout' = "closed"
    /\ IF name = 0
       THEN ExitRaises("AssertionError")
       ELSE IF keep
       THEN ExitReturns
       ELSE /\ pc' = "exit_rm"
            /\ UNCHANGED <<result, tornDown>>
    /\ UNCHANGED <<name, nameCtr, engine, cwd, keep, process, callVars, ncalls,
                   startVars, state, starts, exc, containers, engLog, warnings,
                   answered, probe, config>>

\* the removal without line 299
ExitRemove_NameKept ==
    /\ pc = "exit_rm"
    /\ engLog' = Append(engLog, EngineCmd("rm", name, NoPlatformArgs, "none"))
    /\ \E removed \in BOOLEAN :
         containers' = IF removed THEN containers \ {name} ELSE containers
    /\ ExitReturns
    /\ UNCHANGED <<name, nameCtr, engine, cwd, keep, process, bash_stdin, bash_stdout,
                   callVars, ncalls, startVars, state, starts, exc, warnings, answered,
                   probe, config>>

\* lines 294-299: rm --force, its failure ignored
ExitRemove ==
    /\ pc = "exit_rm"
    /\ engLog' = Append(engLog, EngineCmd("rm", name, NoPlatformArgs, "none"))
    /\ \E removed \in BOOLEAN :
         containers' = IF removed THEN containers \ {name} ELSE containers
    /\ name' = 0
    /\ ExitReturns
    /\ UNCHANGED <<nameCtr, engine, cwd, keep, process, bash_stdin, bash_stdout,
                   callVars, ncalls, startVars, state, starts, exc, warnings, answered,
                   probe, config>>

----------------------------------------------------------------------------
(* The shell's own steps *)

\* the shell reads "exit 0" and exits
ShellExit ==
    /\ shell = "alive"
    /\ stdinQ # <<>>
    /\ Head(stdinQ) = ExitDirective
    /\ shell' = "dead"
    /\ stdinQ' = Tail(stdinQ)
    /\ UNCHANGED <<sessionVars, pc, stdoutBuf, calls, cmdLog, ncalls, startVars,
                   lifeVars, probe, config>>

\* the shell dies by itself: the container is killed, or fails to start
ShellDies ==
    /\ shell = "alive"
    /\ shell' = "dead"
    /\ UNCHANGED <<sessionVars, pc, stdinQ, stdoutBuf, calls, cmdLog, ncalls,
                   startVars, lifeVars, probe, config>>

----------------------------------------------------------------------------
(* The session from its construction *)

\* outputs and statuses of the commands run in the lifecycle specification

Init ==
    /\ name = 0 /\ nameCtr = 0
    /\ engine \in {"docker", "podman"}
    /\ cwd \in BOOLEAN
    /\ keep \in BOOLEAN
    /\ pc = "idle"
    /\ process = "unset" /\ bash_stdin = "unset" /\ bash_stdout = "unset"
    /\ shell = "none"
    /\ stdinQ = <<>> /\ stdoutBuf = <<>>
    /\ calls = [c \in Callers |-> IdleFrame]
    /\ cmdLog = [c \in Callers |-> NoCmd]
    /\ ncalls = 0
    /\ oci_platform \in {"linux/amd64", "linux/386"}
    /\ platform_args = NoPlatformArgs
    /\ simulate_32_bit = FALSE
    /\ container_machine = "unset"
    /\ multiarch_supported = "unset"
    /\ answered = FALSE
    /\ state = "UNSTARTED" /\ tornDown = FALSE /\ starts = 0
    /\ exc = "none"
    /\ result = [op |-> "none", error |-> "none"]
    /\ containers = {}
    /\ engLog = <<>>
    /\ warnings = <<>>
    /\ probe = NoProbe
    /\ config = NoConfig

Next ==
    \/ EnterBegin
    \/ EnterProbe
    \/ EnterArch
    \/ EnterArchRetry
    \/ EnterCreate
    \/ EnterPopen
    \/ EnterCall
    \/ EnterCallDone
    \/ BodyCall(TRUE, LifeTokens)
    \/ CallRead
    \/ ShellStep(LifeOutputs, LifeStatuses)
    \/ BodyEnd
    \/ ExitWrite
    \/ ExitWait
    \/ ExitClose
    \/ ExitRemove
    \/ ShellExit
    \/ ShellDies

Spec == Init /\ [][Next]_vars

----------------------------------------------------------------------------
(* The capability probe on its own *)

InitProbe ==
    /\ name = 0 /\ nameCtr = 0
    /\ engine \in {"docker", "podman"}
    /\ cwd = FALSE
    /\ keep = FALSE
    /\ pc = "idle"
    /\ process = "unset" /\ bash_stdin = "unset" /\ bash_stdout = "unset"
    /\ shell = "none"
    /\ stdinQ = <<>> /\ stdoutBuf = <<>>
    /\ calls = [c \in Callers |-> IdleFrame]
    /\ cmdLog = [c \in Callers |-> NoCmd]
    /\ ncalls = 0
    /\ oci_platform = "linux/amd64"
    /\ platform_args = NoPlatformArgs
    /\ simulate_32_bit = FALSE
    /\ container_machine = "unset"
    /\ multiarch_supported = "unset"
    /\ answered = FALSE
    /\ state = "UNSTARTED" /\ tornDown = FALSE /\ starts = 0
    /\ exc = "none"
    /\ result = [op |-> "none", error |-> "none"]
    /\ containers = {}
    /\ engLog = <<>>
    /\ warnings = <<>>
    /\ probe = NoProbe
    /\ config = NoConfig

NextProbe == ProbeRun \/ ProbeTaken

SpecProbe == InitProbe /\ [][NextProbe]_vars

----------------------------------------------------------------------------
(* The construction of engine configurations on its own *)

InitConfig ==
    /\ name = 0 /\ nameCtr = 0
    /\ engine = "docker"
    /\ cwd = FALSE
    /\ keep = FALSE
    /\ pc = "idle"
    /\ process = "unset" /\ bash_stdin = "unset" /\ bash_stdout = "unset"
    /\ shell = "none"
    /\ stdinQ = <<>> /\ stdoutBuf = <<>>
    /\ calls = [c \in Callers |-> IdleFrame]
    /\ cmdLog = [c \in Callers |-> NoCmd]
    /\ ncalls = 0
    /\ oci_platform = "linux/amd64"
    /\ platform_args = NoPlatformArgs
    /\ simulate_32_bit = FALSE
    /\ container_machine = "unset"
    /\ multiarch_supported = "unset"
    /\ answered = FALSE
    /\ state = "UNSTARTED" /\ tornDown = FALSE /\ starts = 0
    /\ exc = "none"
    /\ result = [op |-> "none", error |-> "none"]
    /\ containers = {}
    /\ engLog = <<>>
    /\ warnings = <<>>
    /\ probe = NoProbe
    /\ config = NoConfig

NextConfig == ConfigParse \/ ConfigDirect \/ ConfigTaken

SpecConfig == InitConfig /\ [][NextConfig]_vars

----------------------------------------------------------------------------
(* Claims about the call protocol, checked under SpecCall *)

\* bytes of a text under utf8 with surrogateescape (the inverse of Decode)
RECURSIVE EncodeText(_)
EncodeText(t) ==
    IF t = <<>> THEN <<>>
    ELSE LET h == Head(t) IN
         IF h < 128 THEN <<h>> \o EncodeText(Tail(t))
         ELSE IF h >= 56320 THEN <<h - 56320>> \o EncodeText(Tail(t))
         ELSE <<192 + (h \div 64), 128 + (h % 64)>> \o EncodeText(Tail(t))

CallOver(c) == cmdLog[c].ran /\ calls[c].pc \in {"returned", "raised"}

\* C1: a capturing call that is over returned, or carries in its failure,
\* exactly the bytes its command wrote before the footer: nothing is lost
\* and no byte of the status digits, the token or the footer's newline is
\* part of it, for every token.
C1_CapturedOutputExact ==
    \A c \in Callers :
        (CallOver(c) /\ calls[c].capture) =>
            /\ calls[c].kind \in {"return", "CalledProcessError"}
            /\ calls[c].acc = cmdLog[c].out
            /\ calls[c].output = Decode(cmdLog[c].out)
            /\ EncodeText(calls[c].output) = cmdLog[c].out

\* a capturing call is over whose command wrote several lines, the last
\* without a newline, with a byte that is not ASCII
C1_Witness ==
    \E c \in Callers :
        /\ CallOver(c) /\ calls[c].capture
        /\ LET out == cmdLog[c].out IN
            /\ Len(out) >= 3
            /\ out[Len(out)] # NL
            /\ \E i \in 1..Len(out) : out[i] = NL
            /\ \E i \in 1..Len(out) : out[i] >= 128

\* C2: a call whose command exited with status zero returns normally; one
\* whose command exited with a nonzero status raises a failure whose exit
\* code is that status.
C2_ExitStatusReported ==
    \A c \in Callers :
        CallOver(c) =>
            IF cmdLog[c].status = 0
            THEN calls[c].pc = "returned" /\ calls[c].kind = "return"
            ELSE /\ calls[c].pc = "raised"
                 /\ calls[c].kind = "CalledProcessError"
                 /\ calls[c].code = cmdLog[c].status

C2_Witness ==
    \E c \in Callers :
        /\ CallOver(c) /\ cmdLog[c].status = 255
        /\ calls[c].pc = "raised" /\ calls[c].code = 255

\* the line a readline step of caller c has just taken from the pipe
LineTaken == SubSeq(stdoutBuf, 1, Len(stdoutBuf) - Len(stdoutBuf'))

\* C3: a line that holds the call's token, but not as its last bytes right
\* before the newline, is never taken for the footer: the call keeps
\* reading and the whole line is accumulated as output.
C3_MidLineTokenIsOutput ==
    [][\A c \in Callers :
         ( /\ calls[c].pc = "read"
           /\ calls'[c] # calls[c]
           /\ Contains(LineTaken, calls[c].tok)
           /\ ~EndsWith(LineTaken, calls[c].tok \o <<NL>>) )
         => /\ calls'[c].pc = "read"
            /\ calls'[c].acc = calls[c].acc \o LineTaken]_vars

\* a call is still reading after a whole line holding its token
C3_Witness ==
    \E c \in Callers :
        /\ calls[c].pc = "read"
        /\ calls[c].acc # <<>>
        /\ calls[c].acc[Len(calls[c].acc)] = NL
        /\ Contains(calls[c].acc, calls[c].tok)

----------------------------------------------------------------------------
(* Claims about the session's lifecycle, checked under Spec *)

\* no method of the session is running
Quiescent == pc \in {"idle", "body"}

\* C4: once __exit__ has returned (and __enter__ was not invoked again), a
\* call() always fails with an error: it writes no request to the shell,
\* never reads and never returns a result.
C4_CallAfterTeardownFails ==
    /\ [](tornDown => /\ calls[1].pc \in {"idle", "raised"}
                      /\ \A i \in 1..Len(stdinQ) : stdinQ[i].who = 0)
    /\ [][(tornDown /\ ncalls' = ncalls + 1)
            => /\ calls'[1].pc = "raised"
               /\ calls'[1].kind \in {"ValueError", "BrokenPipeError"}
               /\ stdinQ' = stdinQ]_vars

\* a call() made after teardown has raised
C4_Witness ==
    /\ tornDown /\ pc = "idle" /\ state = "STOPPED"
    /\ calls[1].pc = "raised" /\ calls[1].kind = "ValueError"

\* C5 as stated, for the sessions whose last start or teardown did not
\* raise (where the claim fails too): whenever no method is running, the
\* name is set exactly when the state is RUNNING
C5_NameIffRunning ==
    (Quiescent /\ result.error \in {"none", "body"})
        => ((name # 0) <=> (state = "RUNNING"))

\* C5 amended: the name is unset before the first start and set from the
\* first statement of every start on, so it is set whenever the state is
\* RUNNING; only the removal step of a teardown without the keep flag
\* clears it, so after a teardown that returned the name is unset exactly
\* when the flag is not truthy.
C5_NameLifetime ==
    /\ [](starts = 0 => name = 0)
    /\ [](state = "RUNNING" => name # 0)
    /\ [](starts > 0 /\ result.op # "exit" => name # 0)
    /\ []((tornDown /\ pc = "idle") => ((name = 0) <=> ~keep))
    /\ [][name' # name =>
            \/ pc = "idle" /\ pc' = "enter_probe" /\ name' # 0
            \/ pc = "exit_rm" /\ ~keep /\ name' = 0]_vars

\* a teardown with the keep flag has returned, and the name is still set
C5_Witness ==
    /\ tornDown /\ pc = "idle" /\ keep /\ state = "STOPPED"
    /\ result.op = "exit"
    /\ name # 0 /\ name \in containers

\* C6 as stated: once a teardown has run to its end the session stays
\* STOPPED, and no container is created for it
C6_StoppedIsTerminal ==
    [][(state = "STOPPED" /\ result.op = "exit" /\ result.error \in {"none", "body"})
         => (state' = "STOPPED" /\ containers' \subseteq containers)]_vars

\* C6 amended: the state changes only from UNSTARTED or STOPPED to RUNNING,
\* when an __enter__ returns, and from RUNNING to STOPPED, when __exit__ is
\* invoked; STOPPED is not terminal: a later __enter__ runs as the first
\* one does, under a new name, and the k-th start that succeeds has created
\* the k-th container.
C6_LifecycleOrder ==
    /\ [][state' # state =>
            \/ /\ state \in {"UNSTARTED", "STOPPED"} /\ state' = "RUNNING"
               /\ pc \in {"enter_ready_wait", "enter_mkdir_wait"} /\ pc' = "body"
               /\ name = starts
               /\ \E i \in 1..Len(engLog) :
                     engLog[i].cmd = "create" /\ engLog[i].name = starts
            \/ /\ state = "RUNNING" /\ state' = "STOPPED"
               /\ pc = "body" /\ pc' = "exit_write"]_vars
    /\ [][pc = "idle" /\ pc' = "enter_probe" => name' \notin containers]_vars

\* a session that was torn down is RUNNING again, under its second name
C6_Witness ==
    state = "RUNNING" /\ starts = 2 /\ name = 2 /\ pc = "body"

\* C7 as stated: when a start has raised, or a teardown is over, the
\* process that was spawned has been waited for and both stream ends are
\* closed
C7_HandlesReleased ==
    (pc = "idle" /\ result.op \in {"enter", "exit"} /\ process # "unset")
        => (process = "reaped" /\ bash_stdin = "closed" /\ bash_stdout = "closed")

\* C8 as stated: a teardown entered with the body's error propagates that
\* error
C8_BodyErrorPropagates ==
    (pc = "idle" /\ result.op = "exit" /\ exc = "body") => result.error = "body"

\* C9 as stated: a teardown that is over has attempted the removal of the
\* named container unless the keep flag is truthy, and has not attempted
\* it when the flag is truthy
C9_RemovalAttempted ==
    (pc = "idle" /\ result.op = "exit")
        => ( (\E i \in 1..Len(engLog) :
                 engLog[i].cmd = "rm" /\ engLog[i].name = nameCtr) <=> ~keep )

----------------------------------------------------------------------------
(* Claims about the capability probe, checked under SpecProbe *)

\* C10 as stated, for the version queries that ran and printed their
\* output: the probe does not raise, and returns False after a warning
\* whenever the output is no JSON object or a client or API version it
\* reads does not parse
C10_ProbeNeverRaises ==
    (probe.pc = "done" /\ probe.query.kind = "output")
        => /\ probe.res.raised = "none"
           /\ probe.query.json # "object" => (~probe.res.value /\ probe.res.warned # "none")

\* the version metadata is complete and parsable for engine eng: every key
\* the probe reads is there and every version it reads parses (for podman
\* the Server section may be missing as a whole)
CompleteMetadata(eng, info) ==
    LET key == IF eng = "docker" THEN "ApiVersion" ELSE "APIVersion"
        ok(sec) == /\ key \in DOMAIN info[sec]
                   /\ ~InvalidVersion(Version(info[sec][key]))
    IN  /\ "Client" \in DOMAIN info /\ ok("Client")
        /\ IF eng = "docker"
           THEN /\ "Server" \in DOMAIN info /\ ok("Server")
                /\ "Version" \in DOMAIN info["Client"]
                /\ ParseInt(SplitDots(info["Client"]["Version"])[1]) >= 0
           ELSE "Server" \in DOMAIN info => ok("Server")

\* version v is at least w
AtLeast(v, w) == ~VersionLess(v, w)

\* the reference decision of the capability probe
ReferenceDecision(eng, info) ==
    LET key    == IF eng = "docker" THEN "ApiVersion" ELSE "APIVersion"
        client == Version(info["Client"][key])
        server == IF "Server" \in DOMAIN info
                  THEN Version(info["Server"][key]) ELSE client
    IN  IF eng = "docker"
        THEN /\ AtLeast(client, V1_32) /\ AtLeast(server, V1_32)
             /\ ParseInt(SplitDots(info["Client"]["Version"])[1]) < ExperimentalBelow
                  => /\ "Experimental" \in DOMAIN info["Server"]
                     /\ info["Server"]["Experimental"] = TRUE
        ELSE AtLeast(client, V3) /\ AtLeast(server, V3)

\* the probe has run on the output of a version query that holds complete,
\* parsable metadata
ProbedComplete ==
    /\ probe.pc = "done" /\ probe.query.kind = "output"
    /\ probe.query.json = "object"
    /\ CompleteMetadata(engine, probe.query.info)

\* C13: on complete, parsable metadata the probe returns, without raising
\* and without a warning, exactly the reference decision: docker is
\* supported iff both API versions are at least 1.32 and, for a client major
\* version below 20, the server's Experimental flag is there and true;
\* podman iff both API versions are at least 3, a missing Server section
\* standing for the client's version.
C13_ProbeIsReferenceDecision ==
    ProbedComplete =>
        /\ probe.res.raised = "none" /\ probe.res.warned = "none"
        /\ probe.res.value = ReferenceDecision(engine, probe.query.info)

\* docker with a client older than 20 whose server is newer than the client
\* API and has Experimental on: supported
C13_Witness ==
    /\ ProbedComplete /\ engine = "docker"
    /\ ParseInt(SplitDots(probe.query.info["Client"]["Version"])[1]) < ExperimentalBelow
    /\ probe.query.info["Client"]["ApiVersion"] = <<49, 46, 51, 50>>
    /\ probe.query.info["Server"]["ApiVersion"] = <<49, 46, 52, 49>>
    /\ "Experimental" \in DOMAIN probe.query.info["Server"]
    /\ probe.res.value = TRUE

----------------------------------------------------------------------------
(* Claims about __enter__, checked under Spec *)

\* positions in engLog of the architecture probes and of the creations of
\* the start that ran last
RunIdx == {i \in 1..Len(engLog) : engLog[i].cmd = "run"}
CreateIdx == {i \in 1..Len(engLog) : engLog[i].cmd = "create"}
StartIdx == {i \in 1..Len(engLog) : engLog[i].cmd = "start"}

\* a step in which __enter__ lets the architecture probe's failure out as it
\* is, with no container created
ArchFailurePropagates ==
    /\ pc' = "idle"
    /\ result' = [op |-> "enter", error |-> "CalledProcessError"]
    /\ containers' = containers
    /\ \A i \in 1..Len(engLog') : engLog'[i].cmd # "create"

\* C15: with target linux/386 the architecture probe runs at most twice; it
\* runs again only after a failure with platform arguments, then with the
\* platform linux/amd64 and --pull=always kept, and these are the arguments
\* of the creation; a failure without platform arguments and a failure of
\* the second run leave __enter__ as they are, with no container created;
\* with any other target the probe does not run.
C15_ArchProbeRetry ==
    /\ [](Cardinality(RunIdx) <= 2)
    /\ [](oci_platform # "linux/386" => RunIdx = {})
    /\ [](\A i, j \in RunIdx : i < j =>
            /\ engLog[i].platform = oci_platform /\ engLog[i].pull
            /\ engLog[j].platform = "linux/amd64" /\ engLog[j].pull)
    /\ [](\A i \in CreateIdx : \A j \in RunIdx :
            /\ j < i
            /\ (\A k \in RunIdx : k <= j) =>
                   /\ engLog[i].platform = engLog[j].platform
                   /\ engLog[i].pull = engLog[j].pull)
    /\ [][(/\ pc = "enter_arch" /\ oci_platform = "linux/386"
           /\ pc' \notin {"enter_arch", "enter_create"}) =>
            IF platform_args = NoPlatformArgs
            THEN ArchFailurePropagates
            ELSE /\ pc' = "enter_arch_retry"
                 /\ platform_args' = [platform |-> "linux/amd64",
                                      pull |-> platform_args.pull]]_vars
    /\ [][(pc = "enter_arch_retry" /\ pc' \notin {"enter_arch_retry", "enter_create"})
            => ArchFailurePropagates]_vars
    /\ [][(pc' = "enter_arch_retry" /\ pc # "enter_arch_retry") =>
            pc = "enter_arch" /\ platform_args # NoPlatformArgs]_vars

\* a session runs in a container created with --platform=linux/amd64 and
\* --pull=always after the second architecture probe
C15_Witness ==
    /\ pc = "body" /\ oci_platform = "linux/386"
    /\ Cardinality(RunIdx) = 2
    /\ \E i \in CreateIdx : engLog[i].platform = "linux/amd64" /\ engLog[i].pull

\* C16: the container's entrypoint is linux32 /bin/bash exactly when the
\* target is linux/386 and the architecture probe that succeeded reported a
\* machine other than i686; otherwise it is /bin/bash.
C16_EntrypointChoice ==
    \A i \in CreateIdx :
        engLog[i].entry = IF oci_platform = "linux/386" /\ container_machine # "i686"
                          THEN "linux32 /bin/bash" ELSE "/bin/bash"

\* a container for linux/386 was created with linux32 /bin/bash after the
\* first probe reported x86_64
C16_Witness ==
    /\ oci_platform = "linux/386" /\ container_machine = "x86_64"
    /\ Cardinality(RunIdx) = 1
    /\ \E i \in CreateIdx : engLog[i].entry = "linux32 /bin/bash"

\* C17: __enter__ creates the container before it starts it, starts it
\* before the readiness call, writes the mkdir call (only with a working
\* directory) after the readiness call was answered, and returns only
\* after the calls it made have returned; no call of the caller is written
\* to a shell that has not answered the readiness call.
C17_StartOrder ==
    /\ [](\A i \in StartIdx : \E j \in CreateIdx :
            j < i /\ engLog[j].name = engLog[i].name)
    /\ [](pc \in {"enter_ready", "enter_ready_wait", "enter_mkdir", "enter_mkdir_wait"}
            => \E i \in StartIdx : engLog[i].name = name)
    /\ [](pc \in {"enter_mkdir", "enter_mkdir_wait"} => cwd /\ answered)
    /\ [](pc = "body" => answered)
    /\ [][(pc' = "enter_mkdir" /\ pc # "enter_mkdir") =>
            pc = "enter_ready_wait" /\ calls[1].pc = "returned"]_vars
    /\ [][(pc' = "body" /\ pc # "body") =>
            /\ pc = (IF cwd THEN "enter_mkdir_wait" ELSE "enter_ready_wait")
            /\ calls[1].pc = "returned"
            /\ StartIdx # {}]_vars
    /\ [][(stdinQ' # stdinQ /\ Len(stdinQ') > Len(stdinQ) /\ pc # "enter_ready")
            => answered]_vars

\* the session is with its caller after the readiness call and the mkdir
\* call, and a call of the caller has returned
C17_Witness ==
    /\ pc = "body" /\ cwd /\ answered /\ starts = 1
    /\ ncalls = 1 /\ calls[1].pc = "returned"
    /\ CreateIdx # {} /\ StartIdx # {}

\* C18: the creation gets the platform argument and --pull=always exactly
\* when the probe reported multiarch support; when it reported none, a
\* warning is logged, neither argument goes to the architecture probe or
\* to the creation, and __enter__ goes on to create and start.
C18_PlatformArgsIffSupported ==
    /\ [](\A i \in CreateIdx :
            /\ (engLog[i].platform # "none" /\ engLog[i].pull)
                  <=> multiarch_supported = "True"
            /\ (engLog[i].platform = "none" /\ ~engLog[i].pull)
                  <=> multiarch_supported = "False")
    /\ [](multiarch_supported = "False" =>
            \A i \in RunIdx \cup CreateIdx :
                engLog[i].platform = "none" /\ ~engLog[i].pull)
    /\ []((multiarch_supported = "False" /\ engLog # <<>>) =>
            \E i \in 1..Len(warnings) :
                warnings[i] = "does not support multiarch images")
    /\ [][(/\ pc = "enter_probe" /\ pc' \notin {"enter_probe", "idle"}
           /\ multiarch_supported' = "False") =>
            /\ pc' = "enter_arch"
            /\ platform_args' = NoPlatformArgs
            /\ Len(warnings') > Len(warnings)
            /\ warnings'[Len(warnings')] = "does not support multiarch images"]_vars

\* without multiarch support the container was created with neither
\* argument and started, after the warning
C18_Witness ==
    /\ multiarch_supported = "False" /\ pc = "body"
    /\ oci_platform = "linux/386" /\ RunIdx # {}
    /\ \E i \in CreateIdx : engLog[i].platform = "none" /\ ~engLog[i].pull
    /\ StartIdx # {}
    /\ \E i \in 1..Len(warnings) : warnings[i] = "does not support multiarch images"

----------------------------------------------------------------------------
(* Claims about sequences of calls, checked under SpecCall *)

\* C19: when a call() of a sequence of calls is over, having returned or
\* raised on a nonzero status, the pipe from the shell is at a message
\* boundary: every byte up to and including the call's footer has been
\* read and no request is pending, so the next call is written with the
\* pipe empty and what it accumulates is what its own command wrote.
C19_MessageBoundary ==
    /\ [](\A c \in Callers :
            CallOver(c) => /\ stdoutBuf = <<>> /\ stdinQ = <<>>
                           /\ calls[c].kind \in {"return", "CalledProcessError"}
                           /\ calls[c].acc = cmdLog[c].out)
    /\ [][ncalls' = ncalls + 1 => (stdoutBuf = <<>> /\ stdinQ = <<>>)]_vars

\* the second call of a session is over, after a command that wrote two
\* lines and exited with a nonzero status
C19_Witness ==
    /\ ncalls = 2 /\ CallOver(1) /\ calls[1].pc = "raised"
    /\ stdoutBuf = <<>>
    /\ Len(cmdLog[1].out) = 4 /\ cmdLog[1].out[2] = NL /\ cmdLog[1].out[4] = NL

----------------------------------------------------------------------------
(* Claims about the end of the shell's output, checked under Spec *)

\* C20 as stated: a call() whose readline has met the end of the shell's
\* output, the shell having died before it printed the footer, has ended
\* with an error and is not reading on
C20_EofEndsCall ==
    \A c \in Callers : calls[c].eof => calls[c].pc = "raised"

----------------------------------------------------------------------------
(* Claims about engine configurations, checked under SpecConfig *)

\* a list holds a platform entry, in either form
HasPlatformEntry(args) == HasBare(args) \/ HasEq(args)

\* from_config_string has run on a recognized engine name
ParsedRecognized ==
    /\ config.pc = "done" /\ config.path = "from_config_string"
    /\ config.name \in {"docker", "podman"}

\* C12 as stated: for a recognized engine name and any create_args list,
\* from_config_string does not raise, logs the deprecation warning exactly
\* when the list holds a platform entry, and returns create_args with no
\* --platform token and no token starting with --platform=
C12_PlatformStripped ==
    ParsedRecognized =>
        /\ config.res.raised = "none"
        /\ config.res.warned <=> HasPlatformEntry(config.args)
        /\ \A cfg \in config.res.made : ~HasPlatformEntry(cfg.create_args)

\* C14 as stated: every engine configuration that was constructed, by
\* either path, has the name docker or podman
C14_NameAlwaysRecognized ==
    config.pc = "done" =>
        \A cfg \in config.res.made : cfg.name \in {"docker", "podman"}

\* C14 amended: from_config_string raises ValueError, and makes no
\* configuration, exactly for the names other than docker and podman, so
\* every configuration it returns has one of the two names; the direct
\* construction checks nothing and returns a configuration with the name
\* it was given.
C14_NameCheckedByParserOnly ==
    config.pc = "done" =>
        IF config.path = "from_config_string"
        THEN /\ config.name \notin {"docker", "podman"}
                  <=> config.res.raised = "ValueError"
             /\ config.res.raised # "none" => config.res.made = {}
             /\ \A cfg \in config.res.made : cfg.name = config.name
        ELSE /\ config.res.raised = "none"
             /\ \E cfg \in config.res.made : cfg.name = config.name

\* from_config_string has rejected the name nerdctl, given with create_args
C14_Witness ==
    /\ config.pc = "done" /\ config.path = "from_config_string"
    /\ config.name = "nerdctl" /\ config.args # <<>>
    /\ config.res.raised = "ValueError" /\ config.res.made = {}

----------------------------------------------------------------------------
(* Claims about concurrent calls, checked under SpecConc *)

\* the calls between the write of their request and their footer
InFlight == {c \in Callers : calls[c].pc = "read"}

\* C11 as stated: at most one call is in flight at any time, and no call
\* has accumulated the footer line of another call as output
C11_OneCallInFlight ==
    /\ Cardinality(InFlight) <= 1
    /\ \A c \in Callers : \A d \in Callers \ {c} :
          calls[d].tok # <<>> => ~Contains(calls[c].acc, calls[d].tok \o <<NL>>)

\* C11 amended: call() does not wait for another call; a call ends only on
\* the footer that carries its own token, so the status it reports is its
\* own command's even when calls overlap; the output it accumulated is its
\* own command's whenever it did not overlap with another call.
C11_UnoverlappedCallsExact ==
    \A c \in Callers :
        /\ calls[c].pc \in {"returned", "raised"} =>
              /\ cmdLog[c].ran
              /\ calls[c].kind = (IF cmdLog[c].status = 0
                                  THEN "return" ELSE "CalledProcessError")
              /\ calls[c].code = cmdLog[c].status
        /\ (CallOver(c) /\ ~calls[c].overlapped) =>
              /\ calls[c].acc = cmdLog[c].out
              /\ calls[c].output = Decode(cmdLog[c].out)

\* two calls overlapped: one is over and reports its own status, with the
\* other's footer line in its output; the other, whose command has run, is
\* still reading, the pipe empty
C11_Witness ==
    \E c \in Callers : \E d \in Callers \ {c} :
        /\ CallOver(c) /\ calls[c].overlapped
        /\ cmdLog[c].status = 1 /\ calls[c].code = 1
        /\ Contains(calls[c].acc, Footer(cmdLog[d].status, calls[d].tok))
        /\ calls[d].pc = "read" /\ cmdLog[d].ran /\ calls[d].overlapped
        /\ stdoutBuf = <<>> /\ stdinQ = <<>>

====
